---- MODULE Spec2Model ----
(***************************************************************************)
(* The valuation and return engine of portfolios/models.py:                *)
(* Stock.price (lazy price synthesis over the StockPrice table),           *)
(* Portfolio.value (sum over holdings) and Portfolio.profit (validation,   *)
(* two valuations, profit and annualized return).                          *)
(*                                                                         *)
(* Dates are day ordinals.  A price is an exact decimal with 4 fractional  *)
(* digits, held as an integer count of its smallest unit, so the Decimal   *)
(* products, sums and differences of the code are integer arithmetic.      *)
(* Every database access of a method is one step; the statements between   *)
(* two accesses are local to the caller and belong to the step before.     *)
(***************************************************************************)
EXTENDS Integers, Sequences, FiniteSets, TLC

\* ---------------------------------------------------------------- bounds
MaxPrice == 2
MaxQuantity == 2

\* date.today(): the dates after it are "in the future".
Today == 2

Stocks == {"JUEMS", "FNTLST"}
Portfolios == {"Samy"}
Callers == {"c1", "c2"}
\* The days up to today, and tomorrow.
Dates == 1..(Today + 1)
PastDates == 1..Today
\* Today and tomorrow: the dates concurrent price requests are made for.
RaceDates == {Today, Today + 1}
\* The prices random.uniform can produce, and the ones a caller may hand to
\* StockPrice.objects.create (0 is the one positive_price rejects).
RandomPrices == 1..MaxPrice
GivenPrices == 0..MaxPrice
Quantities == 0..MaxQuantity

VARIABLES
    prices,     \* the StockPrice table: a set of rows [stock, date, price]
    holdings,   \* the Holding table in primary-key order: rows [portfolio, stock, quantity]
    call,       \* call[c]: the frame of the method caller c is running
    drawn,      \* the Decimal the last random draw of Stock.price gave
    view        \* view[c]: where the detail view serving request c stands

vars == <<prices, holdings, call, drawn, view>>

\* ------------------------------------------------------- the StockPrice table

\* Mutant: the filter leaves the date out.
PriceRowsByStock(table, s, d) == {r \in table : r.stock = s}

\* StockPrice.objects.filter(stock=s, date=d)
PriceRows(table, s, d) == {r \in table : r.stock = s /\ r.date = d}

\* Mutant: the table has no uniqueness constraint.
UniqueStockDateNone(table, row) == TRUE

\* Meta.constraints of StockPrice: unique_stock_date
UniqueStockDate(table, row) == PriceRows(table, row.stock, row.date) = {}

\* Mutant: a price of 0 is accepted.
PositivePriceOrZero(row) == row.price >= 0

\* Meta.constraints of StockPrice: positive_price
PositivePrice(row) == row.price > 0

\* StockPrice.objects.create: the row is inserted if the constraints accept it,
\* otherwise IntegrityError is raised and the table is left as it was.
CreateAccepted(table, row) == UniqueStockDate(table, row) /\ PositivePrice(row)

StockPriceCreate(table, row) == IF CreateAccepted(table, row) THEN table \cup {row} ELSE table

\* ---------------------------------------------------------- the Holding table

RECURSIVE SeqRows(_)
SeqRows(q) == IF q = <<>> THEN {} ELSE {Head(q)} \cup SeqRows(Tail(q))

\* Meta.constraints of Holding: unique_portfolio_stock, positive_quantity
HoldingAccepted(table, row) ==
    /\ \A h \in SeqRows(table) : ~(h.portfolio = row.portfolio /\ h.stock = row.stock)
    /\ row.quantity > 0

\* self.holdings.all(): the rows of the portfolio (related_name="holdings")
HoldingsOf(table, p) == SelectSeq(table, LAMBDA h : h.portfolio = p)

\* ----------------------------------------------------------------- frames

NoArg == "-"

Idle ==
    [op |-> "none", pc |-> "idle", stock |-> NoArg, date |-> 0,
     portfolio |-> NoArg, hs |-> <<>>, i |-> 0, acc |-> 0,
     start_date |-> 0, end_date |-> 0, phase |-> "none", initial_value |-> 0,
     ret |-> 0, err |-> "none", wrote |-> {}]

Raise(f, e) == [f EXCEPT !.pc = "raised", !.err = e]

Return(f, v) == [f EXCEPT !.pc = "returned", !.ret = v]

\* The messages of the exceptions the methods raise.
InvalidRange == "ValueError: The start date must be before the end date."
FutureDateProfit == "ValueError: Received dates must not be in the future."
FutureDatePrice == "ValueError: Cannot get the price of a stock for a future date."
IntegrityError == "IntegrityError: unique_stock_date"
MultipleObjectsReturned == "StockPrice.MultipleObjectsReturned"

\* --------------------------------------------------------- Portfolio.profit

\* ------------------------------------------------------------------ Decimal
\* A Decimal is sign * 0.d1 d2 ... dn * 10^pt, its digits without trailing
\* zeros, so that equal numbers are equal records.  exact is FALSE for a
\* result of which the model keeps the sign alone.

\* The precision of the default context of the decimal module.
Prec == 28

DecimalZero == [sign |-> 0, digits |-> <<>>, pt |-> 0, exact |-> TRUE]

\* The operation raised (a division by zero): no value.
DecimalNoValue == [sign |-> 0, digits |-> <<>>, pt |-> 0, exact |-> FALSE]

RECURSIVE StripTrailing(_)
StripTrailing(ds) ==
    IF ds # <<>> /\ ds[Len(ds)] = 0 THEN StripTrailing(SubSeq(ds, 1, Len(ds) - 1)) ELSE ds

\* <<digits, pt>> without leading zeros.
RECURSIVE StripLeading(_, _)
StripLeading(ds, pt) ==
    IF ds # <<>> /\ ds[1] = 0 THEN StripLeading(Tail(ds), pt - 1) ELSE <<ds, pt>>

RECURSIVE Increment(_)
Increment(ds) ==
    IF ds = <<>> THEN <<1>>
    ELSE IF ds[Len(ds)] < 9 THEN [ds EXCEPT ![Len(ds)] = @ + 1]
    ELSE Increment(SubSeq(ds, 1, Len(ds) - 1)) \o <<0>>

RECURSIVE Decrement(_)
Decrement(ds) ==
    IF ds[Len(ds)] > 0 THEN [ds EXCEPT ![Len(ds)] = @ - 1]
    ELSE Decrement(SubSeq(ds, 1, Len(ds) - 1)) \o <<9>>

\* The Decimal of sign s with the digits ds (no leading zero) before which the
\* point stands pt places to the right, rounded to Prec digits, half to even.
\* rest is 1 when nonzero digits follow ds, and 0 otherwise.
Rounded(s, ds, pt, rest) ==
    LET n == Len(ds)
        kept == IF n > Prec THEN SubSeq(ds, 1, Prec) ELSE ds
        tail == IF n > Prec THEN SubSeq(ds, Prec + 1, n) ELSE <<>>
        more == rest > 0 \/ (Len(tail) > 1 /\ StripTrailing(Tail(tail)) # <<>>)
        \* the discarded part against half a unit of the last kept digit
        half == IF tail = <<>> THEN -1
                ELSE IF tail[1] > 5 \/ (tail[1] = 5 /\ more) THEN 1
                ELSE IF tail[1] = 5 THEN 0
                ELSE -1
        up == half = 1 \/ (half = 0 /\ kept # <<>> /\ kept[Len(kept)] % 2 = 1)
        inc == IF up THEN Increment(kept) ELSE kept
        carried == Len(inc) > Len(kept)
        out == StripTrailing(inc)
    IN  IF out = <<>> THEN DecimalZero
        ELSE [sign |-> s, digits |-> out,
              pt |-> IF carried THEN pt + 1 ELSE pt, exact |-> TRUE]

\* a and b scaled by powers of ten until 1 <= a / b < 10; pt counts them.
RECURSIVE Scale(_, _, _)
Scale(a, b, pt) ==
    IF a < b THEN Scale(10 * a, b, pt - 1)
    ELSE IF a >= 10 * b THEN Scale(a, 10 * b, pt + 1)
    ELSE <<a, b, pt>>

\* The next n digits of the long division, r the numerator of the first.
RECURSIVE QuotientDigits(_, _, _)
QuotientDigits(r, b, n) ==
    IF n = 0 THEN <<>>
    ELSE <<r \div b>> \o QuotientDigits(10 * (r % b), b, n - 1)

\* The numerator left after them: 0 when the division has ended.
RECURSIVE QuotientRest(_, _, _)
QuotientRest(r, b, n) == IF n = 0 THEN r ELSE QuotientRest(10 * (r % b), b, n - 1)

\* Decimal(a) / Decimal(b) for integers a >= 0 and b.
DecDivide(a, b) ==
    IF b = 0 THEN DecimalNoValue
    ELSE IF a = 0 THEN DecimalZero
    ELSE LET sc == Scale(a, b, 1)
             ds == QuotientDigits(sc[1], sc[2], Prec + 1)
             left == QuotientRest(sc[1], sc[2], Prec + 1)
         IN  Rounded(1, ds, sc[3], IF left > 0 THEN 1 ELSE 0)

DecimalOne == DecDivide(1, 1)

\* x - 1 for a Decimal x > 0.
DecMinusOne(x) ==
    IF ~x.exact THEN x
    ELSE IF x = DecimalOne THEN DecimalZero
    ELSE IF x.pt >= 1
    THEN \* x > 1: one is taken from the digits before the point.
         LET n == IF Len(x.digits) > x.pt THEN Len(x.digits) ELSE x.pt
             full == [k \in 1..n |-> IF k <= Len(x.digits) THEN x.digits[k] ELSE 0]
             less == Decrement(SubSeq(full, 1, x.pt)) \o SubSeq(full, x.pt + 1, n)
             lead == StripLeading(less, x.pt)
         IN  Rounded(1, lead[1], lead[2], 0)
    ELSE \* x < 1: -(1 - x), the complement of the digits after the point.
         LET n == Len(x.digits) - x.pt
             frac == [k \in 1..n |-> IF k <= -x.pt THEN 0 ELSE x.digits[k + x.pt]]
             comp == [k \in 1..n |-> IF k = n THEN 10 - frac[k] ELSE 9 - frac[k]]
             lead == StripLeading(comp, 0)
         IN  Rounded(-1, lead[1], lead[2], 0)

\* x ** y for Decimals x > 0 and y > 0.  1 ** y is 1 and x ** 1 is x, exactly.
\* Any other power is computed by the library to within one unit of its last
\* digit; the model keeps its side of 1, which that decides when the real
\* power is further than that from 1: for x > 1, x^y - 1 >= y (x - 1) / x if
\* y < 1 and >= x - 1 otherwise; for x < 1, 1 - x^y >= t / (1 + t) with
\* t = y (1 - x).  In powers of ten: the distance is at least 10^Margin.
PowerMargin(x, y) ==
    LET d == DecMinusOne(x)
        gap == d.pt - 1                    \* |x - 1| >= 10^gap
        low == y.pt - 1                    \* y >= 10^low
    IN  IF x.pt >= 1
        THEN IF low >= 0 THEN gap ELSE gap + low - x.pt
        ELSE IF gap + low >= 0 THEN -1 ELSE gap + low - 1

DecPower(x, y) ==
    IF ~x.exact \/ ~y.exact THEN DecimalNoValue
    ELSE IF x = DecimalOne THEN DecimalOne
    ELSE IF y = DecimalOne THEN x
    ELSE IF PowerMargin(x, y) > 1 - Prec
    THEN [sign |-> 1, digits |-> <<>>, pt |-> IF x.pt >= 1 THEN 1 ELSE 0, exact |-> FALSE]
    ELSE DecimalNoValue

\* Mutant: the quotient is taken the wrong way round.
AnnualizedReturnInverted(initial_value, final_value, days) ==
    LET power == DecPower(DecDivide(initial_value, final_value), DecDivide(365, days))
    IN  IF power.exact THEN DecMinusOne(power)
        ELSE IF power = DecimalNoValue THEN DecimalNoValue
        ELSE [sign |-> IF power.pt >= 1 THEN 1 ELSE -1,
              digits |-> <<>>, pt |-> 0, exact |-> FALSE]

\* Mutant: a year of 366 days.
AnnualizedReturnLeapYear(initial_value, final_value, days) ==
    LET power == DecPower(DecDivide(final_value, initial_value), DecDivide(366, days))
    IN  IF power.exact THEN DecMinusOne(power)
        ELSE IF power = DecimalNoValue THEN DecimalNoValue
        ELSE [sign |-> IF power.pt >= 1 THEN 1 ELSE -1,
              digits |-> <<>>, pt |-> 0, exact |-> FALSE]

\* Line 68: (final_value / initial_value) ** (Decimal("365") / days) - 1
AnnualizedReturn(initial_value, final_value, days) ==
    LET power == DecPower(DecDivide(final_value, initial_value), DecDivide(365, days))
    IN  IF power.exact THEN DecMinusOne(power)
        ELSE IF power = DecimalNoValue THEN DecimalNoValue
        ELSE [sign |-> IF power.pt >= 1 THEN 1 ELSE -1,
              digits |-> <<>>, pt |-> 0, exact |-> FALSE]

\* Mutant: no short-circuit on a zero value.
ProfitResultNoShortCircuit(initial_value, final_value, days) ==
    <<final_value - initial_value, AnnualizedReturn(initial_value, final_value, days)>>

\* Mutant: the difference is taken the wrong way round.
ProfitResultSwapped(initial_value, final_value, days) ==
    IF initial_value = 0 \/ final_value = 0
    THEN <<0, DecimalZero>>
    ELSE <<initial_value - final_value,
           AnnualizedReturn(initial_value, final_value, days)>>

\* Lines 53-70: what profit does with the two values.
ProfitResult(initial_value, final_value, days) ==
    IF initial_value = 0 \/ final_value = 0
    THEN <<0, DecimalZero>>
    ELSE <<final_value - initial_value,
           AnnualizedReturn(initial_value, final_value, days)>>

\* --------------------------------------------------------- Portfolio.value

\* value returns v to its caller: to the top level, or to profit, which goes
\* on with the second valuation or with the result.
ValueReturn(f, v) ==
    IF f.op = "value" THEN Return(f, v)
    ELSE IF f.phase = "initial"
    THEN [f EXCEPT !.initial_value = v, !.phase = "final",
                   !.date = f.end_date, !.pc = "value"]
    ELSE Return(f, ProfitResult(f.initial_value, v, f.end_date - f.start_date))

\* The generator of line 25-28 moves to holding i, or sum() is done.
ValueNext(f) ==
    IF f.i > Len(f.hs) THEN ValueReturn(f, f.acc)
    ELSE [f EXCEPT !.pc = "price_get", !.stock = f.hs[f.i].stock]

\* self.holdings.all() is fetched and the sum starts at 0.
ValueBegin(f, htable) ==
    ValueNext([f EXCEPT !.hs = HoldingsOf(htable, f.portfolio), !.i = 1, !.acc = 0])

\* -------------------------------------------------------------- Stock.price

\* Mutant: the sum adds the price and forgets the quantity.
PriceReturnNoQuantity(f, p) ==
    IF f.op = "price" THEN Return(f, p)
    ELSE ValueNext([f EXCEPT !.acc = @ + p, !.i = @ + 1])

\* price returns p to its caller: to the top level, or to the sum of value,
\* which adds p * holding.quantity.
PriceReturn(f, p) ==
    IF f.op = "price" THEN Return(f, p)
    ELSE ValueNext([f EXCEPT !.acc = @ + p * f.hs[f.i].quantity, !.i = @ + 1])

\* Mutant: price does not check the date.
PriceGetNoDateCheck(f, table) ==
    LET rows == PriceRows(table, f.stock, f.date)
    IN  IF rows = {} THEN [f EXCEPT !.pc = "price_create"]
        ELSE IF Cardinality(rows) > 1 THEN Raise(f, MultipleObjectsReturned)
        ELSE PriceReturn(f, (CHOOSE r \in rows : TRUE).price)

\* Lines 91-96: the date check and StockPrice.objects.get.
PriceGet(f, table) ==
    IF f.date > Today THEN Raise(f, FutureDatePrice)
    ELSE LET rows == PriceRows(table, f.stock, f.date)
         IN  IF rows = {} THEN [f EXCEPT !.pc = "price_create"]
             ELSE IF Cardinality(rows) > 1 THEN Raise(f, MultipleObjectsReturned)
             ELSE PriceReturn(f, (CHOOSE r \in rows : TRUE).price)

\* Mutant: the row is created for today and not for the date asked for.
RandomRowToday(f, random_price) == [stock |-> f.stock, date |-> Today, price |-> random_price]

\* Lines 98-101: the row StockPrice.objects.create is given.
RandomRow(f, random_price) == [stock |-> f.stock, date |-> f.date, price |-> random_price]

\* Lines 99-103: the frame after create; nothing catches its IntegrityError.
PriceCreate(f, table, random_price) ==
    LET row == RandomRow(f, random_price)
    IN  IF CreateAccepted(table, row)
        THEN PriceReturn([f EXCEPT !.wrote = @ \cup {row}], row.price)
        ELSE Raise(f, IntegrityError)

\* Mutant: the future check comes before the range check.
ProfitBeginFutureFirst(f, htable) ==
    IF f.start_date > Today \/ f.end_date > Today THEN Raise(f, FutureDateProfit)
    ELSE IF f.start_date >= f.end_date THEN Raise(f, InvalidRange)
    ELSE ValueBegin([f EXCEPT !.phase = "initial", !.date = f.start_date], htable)

\* Mutant: profit leaves the future check to the price lookups.
ProfitBeginNoFutureCheck(f, htable) ==
    IF f.start_date >= f.end_date THEN Raise(f, InvalidRange)
    ELSE ValueBegin([f EXCEPT !.phase = "initial", !.date = f.start_date], htable)

\* Lines 44-51: the validation of profit, then the first valuation begins.
ProfitBegin(f, htable) ==
    IF f.start_date >= f.end_date THEN Raise(f, InvalidRange)
    ELSE IF f.start_date > Today \/ f.end_date > Today THEN Raise(f, FutureDateProfit)
    ELSE ValueBegin([f EXCEPT !.phase = "initial", !.date = f.start_date], htable)

\* ------------------------------------- PortfolioDetailView.get_context_data

\* results before the dictionary is built, with the types it will have.
NoResults ==
    [profit |-> 0, annualized_return |-> DecimalZero, initial_value |-> 0,
     final_value |-> 0, holdings_table |-> <<>>]

\* The view of a request: pc is the call it waits for, hs the holdings the
\* table is built from, k the holding of the row being built and got the
\* prices that row has received.
ViewIdle ==
    [pc |-> "idle", portfolio |-> NoArg, start_date |-> 0, end_date |-> 0,
     results |-> NoResults, hs |-> <<>>, k |-> 0, got |-> <<>>, error |-> "none"]

ProfitCall(p, s, e) ==
    [Idle EXCEPT !.op = "profit", !.pc = "profit", !.portfolio = p,
                 !.start_date = s, !.end_date = e]

ValueCall(p, d) ==
    [Idle EXCEPT !.op = "value", !.pc = "value", !.portfolio = p, !.date = d]

PriceCall(s, d) ==
    [Idle EXCEPT !.op = "price", !.pc = "price_get", !.stock = s, !.date = d]

\* annualized_return * 100
Percentage(x) == IF x.exact /\ x.sign # 0 THEN [x EXCEPT !.pt = @ + 2] ELSE x

\* The dates of the four price calls of one row, in the order they are made:
\* initial_price, final_price, and the two of profit.
RowDates(v) == <<v.start_date, v.end_date, v.end_date, v.start_date>>

\* Mutant: the profit of a row is taken the wrong way round.
HoldingRowSwapped(h, got) ==
    [symbol |-> h.stock, initial_price |-> got[1], final_price |-> got[2],
     quantity |-> h.quantity, profit |-> h.quantity * (got[4] - got[3])]

\* Lines 36-46: one row of holdings_table.
HoldingRow(h, got) ==
    [symbol |-> h.stock, initial_price |-> got[1], final_price |-> got[2],
     quantity |-> h.quantity, profit |-> h.quantity * (got[3] - got[4])]

\* Lines 25-51: the call f the view waited for has ended. The result is
\* <<the view, the frame of the next call>>. An exception leaves results None
\* and becomes a form error.
ViewNext(v, f, htable) ==
    IF f.pc = "raised"
    THEN <<[v EXCEPT !.pc = "error", !.error = f.err, !.results = NoResults], Idle>>
    ELSE IF v.pc = "profit"
    THEN <<[v EXCEPT !.pc = "initial_value", !.results.profit = f.ret[1],
                     !.results.annualized_return = Percentage(f.ret[2])],
           ValueCall(v.portfolio, v.start_date)>>
    ELSE IF v.pc = "initial_value"
    THEN <<[v EXCEPT !.pc = "final_value", !.results.initial_value = f.ret],
           ValueCall(v.portfolio, v.end_date)>>
    ELSE IF v.pc = "final_value"
    THEN LET hs == HoldingsOf(htable, v.portfolio)
             w == [v EXCEPT !.results.final_value = f.ret, !.hs = hs]
         IN  IF hs = <<>> THEN <<[w EXCEPT !.pc = "done"], Idle>>
             ELSE <<[w EXCEPT !.pc = "table", !.k = 1, !.got = <<>>],
                    PriceCall(hs[1].stock, v.start_date)>>
    ELSE LET got == Append(v.got, f.ret)
             w == [v EXCEPT !.results.holdings_table = Append(@, HoldingRow(v.hs[v.k], got)),
                            !.got = <<>>]
         IN  IF Len(got) < 4
             THEN <<[v EXCEPT !.got = got],
                    PriceCall(v.hs[v.k].stock, RowDates(v)[Len(got) + 1])>>
             ELSE IF v.k < Len(v.hs)
             THEN <<[w EXCEPT !.k = v.k + 1], PriceCall(v.hs[v.k + 1].stock, v.start_date)>>
             ELSE <<[w EXCEPT !.pc = "done"], Idle>>

\* ------------------------------------------------- the random price (line 98)

\* The number of points of [0, 1] the model draws random.random() from.
Grid == 128

LowPrice == 1
HighPrice == 999999
DecimalPlaces == 4
MaxDigits == 10

\* No draw has been made.
NoPrice == [digits |-> <<>>, exponent |-> 0]

\* Mutant: the draw starts at 0.
UniformFromZero(k) == <<HighPrice * k, Grid>>

\* random.uniform(1, 999999) is a + (b - a) * random.random(): the fraction
\* <<numerator, denominator>> for random.random() = k / Grid. The end point b is
\* among the results (k = Grid), as rounding can give it.
Uniform(k) == <<LowPrice * Grid + (HighPrice - LowPrice) * k, Grid>>

RECURSIVE DigitsOf(_)
DigitsOf(n) == IF n < 10 THEN <<n>> ELSE Append(DigitsOf(n \div 10), n % 10)

RECURSIVE PadLeft(_, _)
PadLeft(ds, n) == IF Len(ds) >= n THEN ds ELSE PadLeft(<<0>> \o ds, n)

\* f"{x:.4f}": x = num / den rounded half even to places fractional digits, as
\* the digits before and after the point.
FormatFixed(num, den, places) ==
    LET whole == num \div den
        scaled == (num % den) * 10^places
        low == scaled \div den
        rest == scaled % den
        up == 2 * rest > den \/ (2 * rest = den /\ low % 2 = 1)
        frac == IF up THEN low + 1 ELSE low
    IN  IF frac = 10^places
        THEN [whole |-> DigitsOf(whole + 1), frac |-> PadLeft(<<>>, places)]
        ELSE [whole |-> DigitsOf(whole), frac |-> PadLeft(DigitsOf(frac), places)]

\* Decimal(text): the digits of the text and the exponent its fractional digits
\* give; zeros after the point are kept, zeros before the number are not.
RECURSIVE NoLeadingZeros(_)
NoLeadingZeros(ds) ==
    IF Len(ds) > 1 /\ Head(ds) = 0 THEN NoLeadingZeros(Tail(ds)) ELSE ds

DecimalOf(text) ==
    [digits |-> NoLeadingZeros(text.whole \o text.frac), exponent |-> -Len(text.frac)]

\* Line 98: Decimal(f"{random.uniform(1, 999999):.4f}")
RandomPrice(k) ==
    LET x == Uniform(k) IN DecimalOf(FormatFixed(x[1], x[2], DecimalPlaces))

\* Lines 140-143 for a Decimal: price > 0.
PositiveDecimal(p) == \E i \in 1..Len(p.digits) : p.digits[i] > 0

\* Line 130: the column holds max_digits digits, decimal_places of them after
\* the point.
FitsColumn(p) ==
    /\ -p.exponent <= DecimalPlaces
    /\ Len(p.digits) + p.exponent <= MaxDigits - DecimalPlaces

\* ------------------------------------------------------------------ actions

Init ==
    /\ prices = {}
    /\ holdings = <<>>
    /\ call = [c \in Callers |-> Idle]
    /\ drawn = NoPrice
    /\ view = [c \in Callers |-> ViewIdle]

AllIdle == \A c \in Callers : call[c].pc = "idle"

\* StockPrice.objects.create(stock=s, date=d, price=p) by any writer.
CreatePrice(s, d, p) ==
    /\ prices' = StockPriceCreate(prices, [stock |-> s, date |-> d, price |-> p])
    /\ UNCHANGED <<holdings, call, drawn, view>>

\* Holding.objects.create(portfolio=p, stock=s, quantity=q), between requests.
CreateHolding(p, s, q) ==
    /\ AllIdle
    /\ LET row == [portfolio |-> p, stock |-> s, quantity |-> q]
       IN  holdings' = IF HoldingAccepted(holdings, row)
                       THEN Append(holdings, row) ELSE holdings
    /\ UNCHANGED <<prices, call, drawn, view>>

\* stock.price(d) is called.
CallPrice(c, s, d) ==
    /\ call[c].pc = "idle"
    /\ call' = [call EXCEPT ![c] =
                  [Idle EXCEPT !.op = "price", !.pc = "price_get", !.stock = s, !.date = d]]
    /\ UNCHANGED <<prices, holdings, drawn, view>>

\* portfolio.value(d) is called.
CallValue(c, p, d) ==
    /\ call[c].pc = "idle"
    /\ call' = [call EXCEPT ![c] =
                  [Idle EXCEPT !.op = "value", !.pc = "value", !.portfolio = p, !.date = d]]
    /\ UNCHANGED <<prices, holdings, drawn, view>>

\* portfolio.profit(s, e) is called.
CallProfit(c, p, s, e) ==
    /\ call[c].pc = "idle"
    /\ call' = [call EXCEPT ![c] =
                  [Idle EXCEPT !.op = "profit", !.pc = "profit", !.portfolio = p,
                               !.start_date = s, !.end_date = e]]
    /\ UNCHANGED <<prices, holdings, drawn, view>>

StepProfit(c) ==
    /\ call[c].pc = "profit"
    /\ call' = [call EXCEPT ![c] = ProfitBegin(@, holdings)]
    /\ UNCHANGED <<prices, holdings, drawn, view>>

StepValue(c) ==
    /\ call[c].pc = "value"
    /\ call' = [call EXCEPT ![c] = ValueBegin(@, holdings)]
    /\ UNCHANGED <<prices, holdings, drawn, view>>

StepPriceGet(c) ==
    /\ call[c].pc = "price_get"
    /\ call' = [call EXCEPT ![c] = PriceGet(@, prices)]
    /\ UNCHANGED <<prices, holdings, drawn, view>>

StepPriceCreate(c) ==
    /\ call[c].pc = "price_create"
    /\ \E random_price \in RandomPrices :
          /\ call' = [call EXCEPT ![c] = PriceCreate(@, prices, random_price)]
          /\ prices' = StockPriceCreate(prices, RandomRow(call[c], random_price))
    /\ UNCHANGED <<holdings, drawn, view>>

\* One random price is drawn and formatted.
DrawPrice(k) ==
    /\ drawn' = RandomPrice(k)
    /\ UNCHANGED <<prices, holdings, call, view>>

\* A GET of the detail page of p with a valid form: the view calls profit.
ViewGet(c, p, s, e) ==
    /\ view[c].pc = "idle" /\ call[c].pc = "idle"
    /\ view' = [view EXCEPT ![c] =
                  [ViewIdle EXCEPT !.pc = "profit", !.portfolio = p,
                                   !.start_date = s, !.end_date = e]]
    /\ call' = [call EXCEPT ![c] = ProfitCall(p, s, e)]
    /\ UNCHANGED <<prices, holdings, drawn>>

\* The call the view waited for has ended: the view goes on with the next one.
ViewStep(c) ==
    /\ view[c].pc \in {"profit", "initial_value", "final_value", "table"}
    /\ call[c].pc \in {"returned", "raised"}
    /\ LET next == ViewNext(view[c], call[c], holdings)
       IN  /\ view' = [view EXCEPT ![c] = next[1]]
           /\ call' = [call EXCEPT ![c] = next[2]]
    /\ UNCHANGED <<prices, holdings, drawn>>

\* The context is returned and the page rendered.
ViewRender(c) ==
    /\ view[c].pc \in {"done", "error"}
    /\ view' = [view EXCEPT ![c] = ViewIdle]
    /\ UNCHANGED <<prices, holdings, call, drawn>>

\* The caller takes the result or the exception; its next request may follow.
Finish(c) ==
    /\ call[c].pc \in {"returned", "raised"}
    /\ call' = [call EXCEPT ![c] = Idle]
    /\ UNCHANGED <<prices, holdings, drawn, view>>

\* One request at a time runs the engine (spec section 5: a call runs to
\* completion), while other writers create StockPrice rows for the dates the
\* engine reads.
Request == "c1"

Next ==
    \/ \E s \in Stocks, d \in PastDates, p \in GivenPrices : CreatePrice(s, d, p)
    \/ \E p \in Portfolios, s \in Stocks, q \in Quantities : CreateHolding(p, s, q)
    \/ \E s \in Stocks, d \in Dates : CallPrice(Request, s, d)
    \/ \E p \in Portfolios, d \in Dates : CallValue(Request, p, d)
    \/ \E p \in Portfolios, s \in Dates, e \in Dates : CallProfit(Request, p, s, e)
    \/ StepProfit(Request)
    \/ StepValue(Request)
    \/ StepPriceGet(Request)
    \/ StepPriceCreate(Request)
    \/ Finish(Request)

Spec == Init /\ [][Next]_vars

\* Concurrent requests for prices over the shared StockPrice table.
NextConc ==
    \/ \E s \in Stocks, d \in RaceDates, p \in GivenPrices : CreatePrice(s, d, p)
    \/ \E c \in Callers, s \in Stocks, d \in RaceDates : CallPrice(c, s, d)
    \/ \E c \in Callers : StepPriceGet(c)
    \/ \E c \in Callers : StepPriceCreate(c)
    \/ \E c \in Callers : Finish(c)

SpecConc == Init /\ [][NextConc]_vars

\* Requests for the profit of a portfolio over periods of 1, 364 and 365 days,
\* one at a time; prices are entered between the requests.
ReturnDates == {Today - 365, Today - 1, Today}

NextReturn ==
    \/ AllIdle /\ \E s \in Stocks, d \in ReturnDates, p \in GivenPrices : CreatePrice(s, d, p)
    \/ \E p \in Portfolios, s \in Stocks, q \in Quantities : CreateHolding(p, s, q)
    \/ \E p \in Portfolios, s \in ReturnDates, e \in ReturnDates : CallProfit(Request, p, s, e)
    \/ StepProfit(Request)
    \/ StepValue(Request)
    \/ StepPriceGet(Request)
    \/ StepPriceCreate(Request)
    \/ Finish(Request)

SpecReturn == Init /\ [][NextReturn]_vars

\* The random draws of Stock.price, one after another.
NextSynth == \E k \in 0..Grid : DrawPrice(k)

SpecSynth == Init /\ [][NextSynth]_vars

\* One request at a time is served by the detail view, while other writers
\* create StockPrice rows.
NextView ==
    \/ \E s \in Stocks, d \in PastDates, p \in GivenPrices : CreatePrice(s, d, p)
    \/ \E p \in Portfolios, s \in Stocks, q \in Quantities : CreateHolding(p, s, q)
    \/ \E p \in Portfolios, s \in Dates, e \in Dates : ViewGet(Request, p, s, e)
    \/ StepProfit(Request)
    \/ StepValue(Request)
    \/ StepPriceGet(Request)
    \/ StepPriceCreate(Request)
    \/ ViewStep(Request)
    \/ ViewRender(Request)

SpecView == Init /\ [][NextView]_vars

\* ------------------------------------------------------------------- claims

\* What the claims read from the two tables.
Stored(s, d) == {r \in prices : r.stock = s /\ r.date = d}

StoredPrice(s, d) == (CHOOSE r \in Stored(s, d) : TRUE).price

HeldBy(p) == {h \in {holdings[k] : k \in 1..Len(holdings)} : h.portfolio = p}

RECURSIVE SumOfHoldings(_, _)
SumOfHoldings(hset, d) ==
    IF hset = {} THEN 0
    ELSE LET h == CHOOSE x \in hset : TRUE
         IN  StoredPrice(h.stock, d) * h.quantity + SumOfHoldings(hset \ {h}, d)

Finished(f) == f.pc \in {"returned", "raised"}

\* C1: when two price calls for the same missing (stock, date) race and one of
\* them has inserted its price, the other one does not fail: it returns, and
\* it returns the price the winner persisted.
C1_RaceLoserReturnsWinnersPrice ==
    \A c, o \in Callers :
        ( /\ c # o
          /\ call[c].op = "price" /\ call[o].op = "price"
          /\ call[c].stock = call[o].stock /\ call[c].date = call[o].date
          /\ call[o].pc = "returned" /\ call[o].wrote # {}
          /\ Finished(call[c]) )
        => call[c].pc = "returned" /\ call[c].ret = call[o].ret

\* C2: a price call that reads (stock, date), date not after today, when a
\* PricePoint exists for it returns exactly the stored price and leaves the
\* table as it is; the price a call returns is the one persisted for the pair,
\* and a persisted PricePoint is never changed or removed, so a second call
\* returns what the first returned.
C2_StoredPriceIsReturned ==
    [][ /\ \A c \in Callers :
              ( /\ call[c].op = "price" /\ call[c].pc = "price_get"
                /\ call[c].date <= Today
                /\ Stored(call[c].stock, call[c].date) # {}
                /\ call'[c] # call[c] )
              => /\ call'[c].pc = "returned"
                 /\ \A r \in Stored(call[c].stock, call[c].date) : call'[c].ret = r.price
                 /\ prices' = prices
        /\ \A c \in Callers :
              (call'[c].op = "price" /\ call'[c].pc = "returned")
              => {r \in prices' : r.stock = call'[c].stock /\ r.date = call'[c].date}
                    = {[stock |-> call'[c].stock, date |-> call'[c].date,
                        price |-> call'[c].ret]}
        /\ prices \subseteq prices'
      ]_vars

C2_Witness ==
    \E c \in Callers :
        /\ call[c].op = "price" /\ call[c].pc = "returned" /\ call[c].wrote = {}
        /\ Stored(call[c].stock, call[c].date) # {}

\* C3: there is at most one PricePoint per (stock, date), and a PricePoint
\* once stored stays as it is: a second create for its pair is rejected.
C3_OnePricePerStockDate ==
    /\ [](\A r1, r2 \in prices :
              (r1.stock = r2.stock /\ r1.date = r2.date) => r1 = r2)
    /\ [][prices \subseteq prices']_vars

C3_Witness ==
    \E c \in Callers :
        /\ call[c].pc = "raised" /\ call[c].err = IntegrityError
        /\ Cardinality(Stored(call[c].stock, call[c].date)) = 1

\* C4: a price call for a date after today fails with the FutureDate error of
\* price and writes nothing, whether or not the pair has a PricePoint.
C4_FuturePriceFailsWithoutWrite ==
    [][ \A c \in Callers :
            ( /\ call[c].op = "price" /\ call[c].pc = "price_get"
              /\ call[c].date > Today
              /\ call'[c] # call[c] )
            => /\ call'[c].pc = "raised" /\ call'[c].err = FutureDatePrice
               /\ call'[c].wrote = {}
               /\ prices' = prices
      ]_vars

C4_Witness ==
    \E c \in Callers :
        /\ call[c].op = "price" /\ call[c].pc = "raised"
        /\ call[c].err = FutureDatePrice
        /\ Stored(call[c].stock, call[c].date) # {}

\* C5: value for a date after today, once over, has failed with the
\* FutureDate error of the price lookup and has created no PricePoint, for
\* every portfolio.
C5_FutureValueFails ==
    \A c \in Callers :
        (call[c].op = "value" /\ call[c].date > Today /\ Finished(call[c]))
        => /\ call[c].pc = "raised" /\ call[c].err = FutureDatePrice
           /\ call[c].wrote = {}

\* C6: profit with start_date >= end_date, once it has run, has failed
\* with InvalidRange (also when the dates are in the future), and has created
\* no PricePoint.
C6_InvalidRangeFirst ==
    \A c \in Callers :
        ( /\ call[c].op = "profit" /\ call[c].pc # "profit"
          /\ call[c].start_date >= call[c].end_date )
        => /\ call[c].pc = "raised" /\ call[c].err = InvalidRange
           /\ call[c].wrote = {}

C6_Witness ==
    \E c \in Callers :
        /\ call[c].op = "profit" /\ call[c].pc = "raised"
        /\ call[c].err = InvalidRange
        /\ call[c].start_date = call[c].end_date /\ call[c].start_date > Today

\* C7: profit with start_date < end_date and a date after today, once
\* it has run, has failed with the FutureDate error of profit, and has created
\* no PricePoint, not even for its valid start_date.
C7_FutureProfitFailsBeforeValue ==
    \A c \in Callers :
        ( /\ call[c].op = "profit" /\ call[c].pc # "profit"
          /\ call[c].start_date < call[c].end_date
          /\ (call[c].start_date > Today \/ call[c].end_date > Today) )
        => /\ call[c].pc = "raised" /\ call[c].err = FutureDateProfit
           /\ call[c].wrote = {}
           /\ call[c].hs = <<>> /\ call[c].phase = "none"

C7_Witness ==
    \E c \in Callers :
        /\ call[c].op = "profit" /\ call[c].pc = "raised"
        /\ call[c].err = FutureDateProfit
        /\ call[c].start_date <= Today
        /\ HeldBy(call[c].portfolio) # {}
        /\ \E h \in HeldBy(call[c].portfolio) : Stored(h.stock, call[c].start_date) = {}

\* C8: the amount value returns for a date not after today is the sum over
\* the holdings of the portfolio of the price persisted for (stock, date)
\* times the quantity; it is 0 for a portfolio with no holdings.
C8_ValueIsSumOfHoldings ==
    \A c \in Callers :
        (call[c].op = "value" /\ call[c].pc = "returned" /\ call[c].date <= Today)
        => /\ \A h \in HeldBy(call[c].portfolio) :
                  Cardinality(Stored(h.stock, call[c].date)) = 1
           /\ call[c].ret = SumOfHoldings(HeldBy(call[c].portfolio), call[c].date)
           /\ (HeldBy(call[c].portfolio) = {} => call[c].ret = 0)

C8_Witness ==
    \E c \in Callers :
        /\ call[c].op = "value" /\ call[c].pc = "returned" /\ call[c].date <= Today
        /\ Cardinality(HeldBy(call[c].portfolio)) = 2
        /\ call[c].wrote # {}
        /\ \E h \in HeldBy(call[c].portfolio) : h.quantity > 1

\* C9: profit of a portfolio with no holdings over dates d1 < d2 not after
\* today ends by returning (0, 0), and creates no PricePoint.
C9_EmptyPortfolioProfitIsZero ==
    \A c \in Callers :
        ( /\ call[c].op = "profit"
          /\ call[c].start_date < call[c].end_date /\ call[c].end_date <= Today
          /\ HeldBy(call[c].portfolio) = {} )
        => /\ call[c].wrote = {}
           /\ call[c].pc # "raised"
           /\ call[c].pc = "returned" => call[c].ret = <<0, DecimalZero>>

C9_Witness ==
    \E c \in Callers :
        /\ call[c].op = "profit" /\ call[c].pc = "returned"
        /\ HeldBy(call[c].portfolio) = {}

\* C10: the first component of what profit returns for a portfolio with
\* holdings is value(end) - value(start), and it is the sum over the holdings
\* of quantity * (price at end - price at start), for the persisted prices.
C10_ProfitIsValueDifference ==
    \A c \in Callers :
        ( /\ call[c].op = "profit" /\ call[c].pc = "returned"
          /\ HeldBy(call[c].portfolio) # {} )
        => LET hset == HeldBy(call[c].portfolio)
               s == call[c].start_date
               e == call[c].end_date
           IN  /\ \A h \in hset : Cardinality(Stored(h.stock, s)) = 1
                                  /\ Cardinality(Stored(h.stock, e)) = 1
               /\ call[c].initial_value = SumOfHoldings(hset, s)
               /\ call[c].acc = SumOfHoldings(hset, e)
               /\ call[c].ret[1] = SumOfHoldings(hset, e) - SumOfHoldings(hset, s)

C10_Witness ==
    \E c \in Callers :
        /\ call[c].op = "profit" /\ call[c].pc = "returned"
        /\ Cardinality(HeldBy(call[c].portfolio)) = 2
        /\ call[c].wrote # {}
        /\ call[c].ret[1] < 0

\* C11: for a portfolio with holdings and start < end, the sign of the
\* annualized return profit returns follows the change of value between the
\* two dates: positive when the value rose, negative when it fell, and exactly
\* zero when it is the same (in particular when every holding has the same
\* price on both dates), whatever the number of days.
C11_ReturnSignFollowsValueChange ==
    \A c \in Callers :
        ( /\ call[c].op = "profit" /\ call[c].pc = "returned"
          /\ HeldBy(call[c].portfolio) # {} )
        => LET hset == HeldBy(call[c].portfolio)
               initial == SumOfHoldings(hset, call[c].start_date)
               final == SumOfHoldings(hset, call[c].end_date)
               annualized_return == call[c].ret[2]
           IN  /\ final > initial => annualized_return.sign = 1
               /\ final < initial => annualized_return.sign = -1
               /\ final = initial => annualized_return = DecimalZero
               /\ (\A h \in hset : StoredPrice(h.stock, call[c].start_date)
                                      = StoredPrice(h.stock, call[c].end_date))
                  => annualized_return = DecimalZero

\* A rise over 364 days, a fall over one day and an unchanged value of two
\* holdings whose prices moved against each other have all been returned.
C11_Witness ==
    \E c \in Callers :
        /\ call[c].op = "profit" /\ call[c].pc = "returned"
        /\ Cardinality(HeldBy(call[c].portfolio)) = 2
        /\ call[c].end_date - call[c].start_date = 364
        /\ call[c].acc > call[c].initial_value
        /\ call[c].ret[2].sign = 1 /\ ~call[c].ret[2].exact

\* The whole number of 10^-places units in a Decimal x, toward zero.
RECURSIVE DigitsValue(_, _)
DigitsValue(ds, n) ==
    IF n <= 0 THEN 0
    ELSE 10 * DigitsValue(ds, n - 1) + (IF n <= Len(ds) THEN ds[n] ELSE 0)

Truncated(x, places) == x.sign * DigitsValue(x.digits, x.pt + places)

\* The total return (final - initial) / initial as a Decimal.
TotalReturn(initial, final) ==
    IF final >= initial THEN DecDivide(final - initial, initial)
    ELSE [DecDivide(initial - final, initial) EXCEPT !.sign = -1]

\* assertAlmostEqual of the tests: equal to 7 decimal places.
Places == 7

\* C12 as stated: over exactly 365 days the annualized return of a portfolio
\* with holdings equals the total return (final - initial) / initial.
C12_AnnualizedEqualsTotalReturn ==
    \A c \in Callers :
        ( /\ call[c].op = "profit" /\ call[c].pc = "returned"
          /\ call[c].end_date - call[c].start_date = 365
          /\ HeldBy(call[c].portfolio) # {} )
        => call[c].ret[2] = TotalReturn(call[c].initial_value, call[c].acc)

\* C12 as amended: over exactly 365 days the annualized return of a portfolio
\* with holdings is the 28-digit quotient final / initial minus 1 (the exponent
\* is exactly 1), and it agrees with the total return
\* (final - initial) / initial to 7 decimal places.
C12_AnnualizedIsQuotientMinusOne ==
    \A c \in Callers :
        ( /\ call[c].op = "profit" /\ call[c].pc = "returned"
          /\ call[c].end_date - call[c].start_date = 365
          /\ HeldBy(call[c].portfolio) # {} )
        => LET hset == HeldBy(call[c].portfolio)
               initial == SumOfHoldings(hset, call[c].start_date)
               final == SumOfHoldings(hset, call[c].end_date)
               annualized_return == call[c].ret[2]
               change == IF final >= initial THEN final - initial ELSE initial - final
               total == (IF final >= initial THEN 1 ELSE -1)
                        * ((change * 10^Places) \div initial)
               gap == Truncated(annualized_return, Places) - total
           IN  /\ annualized_return = DecMinusOne(DecDivide(final, initial))
               /\ annualized_return.exact
               /\ gap \in {-1, 0, 1}

\* A year over which the value of two holdings went from 3 to 4: the quotient
\* has no finite expansion and the annualized return is not the Decimal total
\* return.
C12_Witness ==
    \E c \in Callers :
        /\ call[c].op = "profit" /\ call[c].pc = "returned"
        /\ call[c].end_date - call[c].start_date = 365
        /\ Cardinality(HeldBy(call[c].portfolio)) = 2
        /\ call[c].initial_value = 3 /\ call[c].acc = 4
        /\ call[c].ret[2] # TotalReturn(3, 4)

\* The whole part of a Decimal with an exponent, and whether a fractional
\* digit of it is not zero.
WholePart(p) == DigitsValue(p.digits, Len(p.digits) + p.exponent)

HasFraction(p) ==
    \E i \in 1..Len(p.digits) : i > Len(p.digits) + p.exponent /\ p.digits[i] > 0

\* C13: every price Stock.price synthesizes is greater than 0 and at most
\* 999999 and has exactly 4 fractional digits, so it passes positive_price and
\* fits the price column (at most 999999.9999).
C13_SynthesizedPriceInRange ==
    drawn # NoPrice
    => /\ drawn.exponent = -4
       /\ WholePart(drawn) > 0 \/ HasFraction(drawn)
       /\ WholePart(drawn) < 999999 \/ (WholePart(drawn) = 999999 /\ ~HasFraction(drawn))
       /\ PositiveDecimal(drawn)
       /\ FitsColumn(drawn)

\* The largest draw: 999999.0000.
C13_Witness ==
    drawn = [digits |-> <<9, 9, 9, 9, 9, 9, 0, 0, 0, 0>>, exponent |-> -4]

RECURSIVE SumOfProfits(_)
SumOfProfits(rows) ==
    IF rows = <<>> THEN 0 ELSE Head(rows).profit + SumOfProfits(Tail(rows))

\* C14: in the detail view, once profit(start, end) has returned, the calls
\* value(start), value(end) and the price calls of the holdings table insert
\* no PricePoint and do not fail; the values and the prices of the rows are the
\* persisted ones profit used, and the profits of the rows add up to the
\* reported profit.
C14_ViewRepeatsWhatProfitUsed ==
    \A c \in Callers :
        /\ view[c].pc \in {"initial_value", "final_value", "table"}
           => /\ call[c].wrote = {}
              /\ call[c].pc \notin {"price_create", "raised"}
        /\ view[c].pc = "done"
           => LET results == view[c].results
                  rows == results.holdings_table
              IN  /\ results.final_value - results.initial_value = results.profit
                  /\ Len(rows) = Len(view[c].hs)
                  /\ \A n \in 1..Len(rows) :
                        /\ rows[n].symbol = view[c].hs[n].stock
                        /\ rows[n].quantity = view[c].hs[n].quantity
                        /\ rows[n].initial_price
                             = StoredPrice(rows[n].symbol, view[c].start_date)
                        /\ rows[n].final_price
                             = StoredPrice(rows[n].symbol, view[c].end_date)
                  /\ SumOfProfits(rows) = results.profit

\* A page with a table of two rows and a loss has been built.
C14_Witness ==
    \E c \in Callers :
        /\ view[c].pc = "done"
        /\ Len(view[c].results.holdings_table) = 2
        /\ view[c].results.profit < 0
        /\ view[c].results.annualized_return.sign = -1

\* C15: every persisted price and every holding quantity is greater than 0;
\* value returns 0 only for a portfolio without holdings; profit has a zero
\* initial or final value, and so takes its (0, 0) short-circuit, exactly when
\* the portfolio has no holdings, and a portfolio with holdings never divides
\* by an initial value of 0.
C15_ZeroValueOnlyWhenEmpty ==
    /\ \A r \in prices : r.price > 0
    /\ \A k \in 1..Len(holdings) : holdings[k].quantity > 0
    /\ \A c \in Callers :
          /\ (call[c].op = "value" /\ call[c].pc = "returned")
             => (call[c].ret = 0 <=> HeldBy(call[c].portfolio) = {})
          /\ (call[c].op = "profit" /\ call[c].pc = "returned")
             => /\ (call[c].initial_value = 0 \/ call[c].acc = 0)
                   <=> HeldBy(call[c].portfolio) = {}
                /\ HeldBy(call[c].portfolio) # {}
                   => /\ call[c].initial_value > 0
                      /\ call[c].ret[2] # DecimalNoValue

\* profit returned a profit of 0 for a portfolio with a holding: the values
\* were equal and not zero, and the short-circuit was not taken.
C15_Witness ==
    \E c \in Callers :
        /\ call[c].op = "profit" /\ call[c].pc = "returned"
        /\ HeldBy(call[c].portfolio) # {}
        /\ call[c].ret[1] = 0
        /\ call[c].initial_value > 0 /\ call[c].acc = call[c].initial_value

\* What a running value or price call has inserted so far.
C16_Inserted(c) ==
    LET f == call[c]
    IN  /\ f.wrote \subseteq prices
        /\ \A r \in f.wrote : r.date = f.date
        /\ \A r1, r2 \in f.wrote : r1.stock = r2.stock => r1 = r2
        /\ f.op = "value"
           => /\ \A r \in f.wrote : \E h \in HeldBy(f.portfolio) : h.stock = r.stock
              /\ f.pc = "returned" /\ f.date <= Today
                 => \A h \in HeldBy(f.portfolio) :
                        Cardinality(Stored(h.stock, f.date)) = 1
        /\ f.op = "price"
           => /\ Cardinality(f.wrote) <= 1
              /\ \A r \in f.wrote : r.stock = f.stock

\* What one step of a value or price call does to the tables.
C16_Step(c) ==
    (call[c].op \in {"value", "price"} /\ call'[c] # call[c])
    => LET new == prices' \ prices
       IN  /\ holdings' = holdings
           /\ prices \subseteq prices'
           /\ new = call'[c].wrote \ call[c].wrote
           /\ Cardinality(new) <= 1
           /\ \A r \in new : /\ r.stock = call[c].stock /\ r.date = call[c].date
                              /\ Stored(r.stock, r.date) = {}
           /\ (call[c].pc = "price_create" /\ call'[c].pc # "raised")
              => Cardinality(new) = 1

\* C16: a value call changes no holding and no existing PricePoint; what it
\* inserts is one PricePoint for each held stock it found without one on its
\* date: at most one per held stock, none for a stock not held, none for
\* another date; after it returned every held stock has one PricePoint on that
\* date. A price call inserts at most one PricePoint, for its stock and date.
C16_ValueOnlyAddsMissingPrices ==
    /\ [](\A c \in Callers : call[c].op \in {"value", "price"} => C16_Inserted(c))
    /\ [][\A c \in Callers : C16_Step(c)]_vars

\* A value call returned after inserting the PricePoints of its two holdings.
C16_Witness ==
    \E c \in Callers :
        /\ call[c].op = "value" /\ call[c].pc = "returned"
        /\ Cardinality(HeldBy(call[c].portfolio)) = 2
        /\ Cardinality(call[c].wrote) = 2
        /\ call[c].date < Today

====
